---------------------------- MODULE Spec2Model ----------------------------
(***************************************************************************)
(* Model of src/NG_Waitlist_db.py: the Streamlit waitlist dashboard.       *)
(*                                                                         *)
(* Text values are sequences of one-character strings, so that substring   *)
(* search, ILIKE pattern matching, strip() and split(',') are computed     *)
(* character by character as PostgreSQL and Python compute them.           *)
(* Dates are triples <<year, month, day>> and timestamps are pairs         *)
(* <<date, second of the day>>.                                            *)
(***************************************************************************)
EXTENDS Integers, Sequences, FiniteSets, TLC

\* SQL NULL (a column without a value) and Python None (an absent argument).
NULL == <<"NULL">>
None == <<"None">>

\* SQL's three truth values: a WHERE clause keeps a row only on SqlTrue.
SqlTrue    == "true"
SqlFalse   == "false"
SqlUnknown == "unknown"

SqlOr(a, b) ==
    IF a = SqlTrue \/ b = SqlTrue THEN SqlTrue
    ELSE IF a = SqlUnknown \/ b = SqlUnknown THEN SqlUnknown
    ELSE SqlFalse

SqlAnd(a, b) ==
    IF a = SqlFalse \/ b = SqlFalse THEN SqlFalse
    ELSE IF a = SqlUnknown \/ b = SqlUnknown THEN SqlUnknown
    ELSE SqlTrue

SqlNot(a) ==
    IF a = SqlTrue THEN SqlFalse
    ELSE IF a = SqlFalse THEN SqlTrue
    ELSE SqlUnknown

SqlBool(b) == IF b THEN SqlTrue ELSE SqlFalse

---------------------------------------------------------------------------
\* Characters and text

\* Case folding of the letters that occur in the modelled data.
Lower(c) ==
    CASE c = "O" -> "o"
      [] c = "B" -> "b"
      [] c = "A" -> "a"
      [] OTHER   -> c

DigitChar(d) == <<"0", "1", "2", "3", "4", "5", "6", "7", "8", "9">>[d + 1]

\* CAST(id AS TEXT): the decimal rendering of a non-negative integer.
RECURSIVE CastText(_)
CastText(n) ==
    IF n < 10 THEN <<DigitChar(n)>>
    ELSE Append(CastText(n \div 10), DigitChar(n % 10))

\* PostgreSQL's LIKE on lower-cased operands (ILIKE): in the pattern '%'
\* matches any run of characters, '_' any one character, and a backslash
\* makes the character after it literal.  A pattern that ends in a lone
\* backslash is an error in PostgreSQL; a pattern of the form %term% never
\* does, and the case matches nothing here.
RECURSIVE LikeMatch(_, _)
LikeMatch(s, p) ==
    IF p = <<>> THEN s = <<>>
    ELSE IF Head(p) = "%"
         THEN LikeMatch(s, Tail(p)) \/ (s # <<>> /\ LikeMatch(Tail(s), p))
    ELSE IF Head(p) = "_"
         THEN s # <<>> /\ LikeMatch(Tail(s), Tail(p))
    ELSE IF Head(p) = "\\"
         THEN /\ Len(p) >= 2
              /\ s # <<>>
              /\ Lower(Head(s)) = Lower(p[2])
              /\ LikeMatch(Tail(s), Tail(Tail(p)))
    ELSE /\ s # <<>>
         /\ Lower(Head(s)) = Lower(Head(p))
         /\ LikeMatch(Tail(s), Tail(p))

\* column ILIKE :pattern, NULL when the column is NULL.
ILIKE(col, p) ==
    IF col = NULL THEN SqlUnknown ELSE SqlBool(LikeMatch(col, p))

\* f"%{term}%"
Pattern(term) == <<"%">> \o term \o <<"%">>

\* CAST(id AS TEXT) = :term
IdEquals(id, term) == SqlBool(CastText(id) = term)

---------------------------------------------------------------------------
\* Python string helpers used at the call site

IsSpace(c) == c = " "

\* str.strip(): drop leading and trailing whitespace.
RECURSIVE LStrip(_)
LStrip(s) ==
    IF s # <<>> /\ IsSpace(Head(s)) THEN LStrip(Tail(s)) ELSE s

RECURSIVE RStrip(_)
RStrip(s) ==
    IF s # <<>> /\ IsSpace(s[Len(s)]) THEN RStrip(SubSeq(s, 1, Len(s) - 1)) ELSE s

Strip(s) == RStrip(LStrip(s))

\* str.split(','): the pieces between commas, empty pieces included.
RECURSIVE Split(_, _)
Split(s, piece) ==
    IF s = <<>> THEN <<piece>>
    ELSE IF Head(s) = "," THEN <<piece>> \o Split(Tail(s), <<>>)
    ELSE Split(Tail(s), Append(piece, Head(s)))

StripAll(pieces) == [i \in 1..Len(pieces) |-> Strip(pieces[i])]

NonEmpty(t) == t # <<>>

\* exclude_terms = [t.strip() for t in exclude_raw.split(',') if t.strip()]
\*                 if exclude_raw else []
exclude_terms(exclude_raw) ==
    IF exclude_raw = <<>> THEN <<>>
    ELSE SelectSeq(StripAll(Split(exclude_raw, <<>>)), NonEmpty)

\* pd.to_datetime(date).isoformat(): midnight at the start of the date.
to_datetime(date) == <<date, 0>>

\* start_ts = pd.to_datetime(start_date).isoformat() if start_date else None
start_ts(start_date) ==
    IF start_date = None THEN None ELSE to_datetime(start_date)

\* end_ts = pd.to_datetime(end_date).isoformat() if end_date else None
end_ts(end_date) ==
    IF end_date = None THEN None ELSE to_datetime(end_date)

\* Calendar order of dates.
DateLt(a, b) ==
    \/ a[1] < b[1]
    \/ a[1] = b[1] /\ a[2] < b[2]
    \/ a[1] = b[1] /\ a[2] = b[2] /\ a[3] < b[3]

DateLe(a, b) == a = b \/ DateLt(a, b)

\* Timestamp order: by date, then by second of the day.
TsLe(a, b) == DateLt(a[1], b[1]) \/ (a[1] = b[1] /\ a[2] <= b[2])

\* The calendar date of a timestamp.
DateOf(ts) == ts[1]

---------------------------------------------------------------------------
\* The WHERE clause built by fetch_waitlist_rows, evaluated on one row.
\* a is the argument record [start_date, end_date, include_deleted,
\* search_col, search_term, exclude_terms] of the call.

\* Mutant: the flag read the wrong way round.
DeletedClause_Inverted(r, a) ==
    IF a.include_deleted THEN SqlBool(r.deleted_at = NULL) ELSE SqlTrue

\* if not include_deleted: " AND deleted_at IS NULL"
DeletedClause(r, a) ==
    IF a.include_deleted THEN SqlTrue ELSE SqlBool(r.deleted_at = NULL)

\* if start_date is not None: " AND created_at >= :start_date"
StartClause(r, a) ==
    IF a.start_date = None THEN SqlTrue
    ELSE SqlBool(TsLe(a.start_date, r.created_at))

\* if end_date is not None: " AND created_at <= :end_date"
EndClause(r, a) ==
    IF a.end_date = None THEN SqlTrue
    ELSE SqlBool(TsLe(r.created_at, a.end_date))

\* (CAST(id AS TEXT) ILIKE :pattern OR email ILIKE :pattern
\*  OR name ILIKE :pattern OR phone ILIKE :pattern)
AnyClause(r, term) ==
    SqlOr(SqlOr(ILIKE(CastText(r.id), Pattern(term)), ILIKE(r.email, Pattern(term))),
          SqlOr(ILIKE(r.name, Pattern(term)), ILIKE(r.phone, Pattern(term))))

\* Mutant: the id searched by pattern like the text columns.
IdClause_Substring(r, term) == ILIKE(CastText(r.id), Pattern(term))

\* search_col == 'id': " AND CAST(id AS TEXT) = :id_term"
IdClause(r, term) == IdEquals(r.id, term)

\* otherwise: f" AND {search_col} ILIKE :pattern"
ColumnClause(r, col, term) == ILIKE(r[col], Pattern(term))

\* if search_term: ... the search predicate of the chosen column.
SearchClause(r, a) ==
    IF a.search_term = <<>> THEN SqlTrue
    ELSE IF a.search_col = "any" THEN AnyClause(r, a.search_term)
    ELSE IF a.search_col = "id" THEN IdClause(r, a.search_term)
    ELSE ColumnClause(r, a.search_col, a.search_term)

\* (CAST(id AS TEXT) = :ex_i OR email ILIKE :ex_i_pat OR name ILIKE :ex_i_pat
\*  OR phone ILIKE :ex_i_pat)
ExcludeTermClause(r, term) ==
    SqlOr(SqlOr(IdEquals(r.id, term), ILIKE(r.email, Pattern(term))),
          SqlOr(ILIKE(r.name, Pattern(term)), ILIKE(r.phone, Pattern(term))))

\* " OR ".join(exclude_clauses)
RECURSIVE JoinOr(_, _)
JoinOr(r, terms) ==
    IF Len(terms) = 1 THEN ExcludeTermClause(r, terms[1])
    ELSE SqlOr(ExcludeTermClause(r, terms[1]), JoinOr(r, Tail(terms)))

\* if exclude_terms: " AND NOT (" + " OR ".join(exclude_clauses) + ")"
ExcludeClause(r, a) ==
    IF a.exclude_terms = <<>> THEN SqlTrue
    ELSE SqlNot(JoinOr(r, a.exclude_terms))

\* WHERE 1=1 AND ... : the row is selected iff the conjunction is true.
Where(r, a) ==
    SqlAnd(SqlAnd(DeletedClause(r, a), SqlAnd(StartClause(r, a), EndClause(r, a))),
           SqlAnd(SearchClause(r, a), ExcludeClause(r, a)))

Selected(tbl, a) == {i \in 1..Len(tbl) : Where(tbl[i], a) = SqlTrue}

\* ORDER BY created_at DESC: every arrangement of the selected rows in which
\* created_at never increases (the order of equal timestamps is the
\* database's choice).
Orderings(tbl, idx) ==
    LET n == Cardinality(idx)
    IN {o \in [1..n -> idx] :
          /\ \A i, j \in 1..n : i # j => o[i] # o[j]
          /\ \A i \in 1..n : \A j \in 1..n :
                i < j => TsLe(tbl[o[j]].created_at, tbl[o[i]].created_at)}

\* The dataframes fetch_waitlist_rows may return from table tbl.
fetch_waitlist_rows(tbl, a) ==
    {[i \in 1..Cardinality(Selected(tbl, a)) |-> tbl[o[i]]] :
        o \in Orderings(tbl, Selected(tbl, a))}

---------------------------------------------------------------------------
\* Distinct count (the script's lines after the fetch)

\* df.drop_duplicates(subset=[col]): the first row of each value of col is
\* kept; rows whose col is missing count as duplicates of each other.
RECURSIVE drop_duplicates(_, _)
drop_duplicates(frame, col) ==
    IF frame = <<>> THEN <<>>
    ELSE LET init == SubSeq(frame, 1, Len(frame) - 1)
             last == frame[Len(frame)]
         IN IF \E i \in 1..Len(init) : init[i][col] = last[col]
            THEN drop_duplicates(init, col)
            ELSE Append(drop_duplicates(init, col), last)

\* A missing value (None/NaN) of a column; id is the key and always present.
IsMissing(r, col) == IF col = "id" THEN FALSE ELSE r[col] = NULL

\* Series.nunique(): the number of distinct values, missing values left out
\* (dropna=True is the default).
nunique(frame, col) ==
    Cardinality({frame[i][col] : i \in {j \in 1..Len(frame) : ~IsMissing(frame[j], col)}})

\* Mutant: the rows left after de-duplication are counted.
DistinctCount_Len(frame, col) == Len(drop_duplicates(frame, col))

\* distinct_count = df.drop_duplicates(subset=[distinct_by])[distinct_by].nunique()
DistinctCount(frame, col) == nunique(drop_duplicates(frame, col), col)

---------------------------------------------------------------------------
\* Bounds and input domains

\* Most exclude terms typed into the Exclude box.
MaxExclude == 1

Ids        == {4, 42}
Emails     == {NULL, <<"O", "b">>}
Names      == {<<"a", "\\">>}
Phones     == {NULL, <<"0", "4">>}
CreatedAts == {<<<<2024, 1, 1>>, 0>>, <<<<2024, 1, 31>>, 86399>>,
               <<<<2024, 2, 1>>, 1>>}
DeletedAts == {NULL, <<<<2024, 2, 1>>, 0>>}

Rows ==
    {[id |-> i, email |-> e, name |-> n, created_at |-> c, updated_at |-> c,
      phone |-> p, deleted_at |-> d] :
        i \in Ids, e \in Emails, n \in Names, p \in Phones,
        c \in CreatedAts, d \in DeletedAts}

\* Rows of the two-row tables: ids 4 and 42 created at the same second.
PairRows(i) ==
    {r \in Rows : /\ r.id = i
                  /\ r.email = <<"O", "b">>
                  /\ r.phone = NULL
                  /\ r.created_at = <<<<2024, 1, 31>>, 86399>>}

\* Tables the query is run on: the empty table, every one-row table (the
\* WHERE clause is decided row by row) and two-row tables.
FetchTables ==
    {<<>>} \cup {<<r>> : r \in Rows}
           \cup {<<r, q>> : r \in PairRows(4), q \in PairRows(42)}

Dates       == {<<2024, 1, 1>>, <<2024, 1, 31>>}
SearchCols  == {"any", "id", "email", "name", "phone"}
SearchTerms == {<<>>, <<"4", " ">>, <<"o", "b">>, <<"_">>}
ExTerms     == {<<"4">>, <<"o", "b">>, <<"_">>, <<"\\">>}
DistinctBys == {"email", "id"}

ExcludeLists == UNION {[1..k -> ExTerms] : k \in 0..MaxExclude}

\* What the operator types for a list of terms: the terms, comma-separated.
RECURSIVE CommaSeparated(_)
CommaSeparated(terms) ==
    IF terms = <<>> THEN <<>>
    ELSE IF Len(terms) = 1 THEN terms[1]
    ELSE terms[1] \o <<",", " ">> \o CommaSeparated(Tail(terms))

ExcludeRaws == {CommaSeparated(l) : l \in ExcludeLists}

FetchInputs ==
    [start_date : Dates \cup {None}, end_date : Dates \cup {None},
     include_deleted : BOOLEAN, search_col : SearchCols,
     search_term : SearchTerms, exclude_raw : ExcludeRaws,
     distinct_by : {"email"}]

\* The widgets' initial values: the last 30 days, deleted rows left out,
\* search column 'any', no search term, no exclude terms, count by email.
Defaults ==
    [start_date |-> <<2024, 1, 1>>, end_date |-> <<2024, 1, 31>>,
     include_deleted |-> FALSE, search_col |-> "any", search_term |-> <<>>,
     exclude_raw |-> <<>>, distinct_by |-> "email"]

\* fetch_waitlist_rows(start_ts, end_ts, include_deleted, search_col,
\*                     search_term.strip(), exclude_terms)
CallArgs(inp) ==
    [start_date      |-> start_ts(inp.start_date),
     end_date        |-> end_ts(inp.end_date),
     include_deleted |-> inp.include_deleted,
     search_col      |-> inp.search_col,
     search_term     |-> Strip(inp.search_term),
     exclude_terms   |-> exclude_terms(inp.exclude_raw)]

---------------------------------------------------------------------------
\* State

VARIABLES
    table,          \* rows of support_waitlist
    inputs,         \* the sidebar widgets' values
    args,           \* arguments of the run's fetch_waitlist_rows call
    df,             \* the dataframe the call returned (empty before it)
    pc,             \* position of the script
    distinct_count, \* the metric's value
    rendered,       \* what the run has put on the page
    error,          \* the error the run has shown: "none", "connect", "query"
    held,           \* connections checked out of the engine's pool
    cache,          \* st.cache_data's entries for fetch_waitlist_rows
    now,            \* the clock, in seconds
    lookup,         \* the run's cache lookup: its outcome and its time
    history,        \* every query that succeeded: arguments, time, result
    stats,          \* the run's connectivity checks and queries so far
    runs            \* script runs so far

vars == <<table, inputs, args, df, pc, distinct_count, rendered, error, held,
          cache, now, lookup, history, stats, runs>>

runVars == <<distinct_count, rendered, error, held, cache, now, lookup,
             history, stats, runs>>

NoLookup == [kind |-> "none", at |-> 0]
NoStats  == [connects |-> 0, queries |-> 0]

RunIdle ==
    /\ distinct_count = 0
    /\ rendered = {}
    /\ error = "none"
    /\ held = 0
    /\ cache = {}
    /\ now = 0
    /\ lookup = NoLookup
    /\ history = {}
    /\ stats = NoStats
    /\ runs = 0

---------------------------------------------------------------------------
\* The query on its own: one uncached call of fetch_waitlist_rows

InitFetch ==
    /\ table \in FetchTables
    /\ inputs = Defaults
    /\ args = CallArgs(Defaults)
    /\ df = <<>>
    /\ pc = "call"
    /\ RunIdle

FetchCall(inp) ==
    /\ pc = "call"
    /\ inputs' = inp
    /\ args' = CallArgs(inp)
    /\ df' \in fetch_waitlist_rows(table, CallArgs(inp))
    /\ pc' = "returned"
    /\ UNCHANGED <<table, runVars>>

NextFetch == pc = "call" /\ \E inp \in FetchInputs : FetchCall(inp)

SpecFetch == InitFetch /\ [][NextFetch]_vars

---------------------------------------------------------------------------
\* The script: one run per page load or widget change

\* Script runs of a session.
MaxRuns == 3

\* The clock runs for this many freshness windows.
MaxWindows == 2

\* @st.cache_data(ttl=300)
TTL == 300

\* Time that passes in one step of the clock.
Delays == {150}

\* The table of a session: two signups with the same email, the
\* older one soft-deleted.
RunTable ==
    <<[id |-> 4, email |-> <<"O", "b">>, name |-> NULL,
       created_at |-> <<<<2024, 1, 1>>, 0>>, updated_at |-> <<<<2024, 1, 1>>, 0>>,
       phone |-> <<"0", "4">>, deleted_at |-> <<<<2024, 1, 1>>, 1>>],
      [id |-> 42, email |-> <<"O", "b">>, name |-> <<"a", "\\">>,
       created_at |-> <<<<2024, 1, 31>>, 0>>, updated_at |-> <<<<2024, 1, 31>>, 0>>,
       phone |-> NULL, deleted_at |-> NULL]>>

\* Widget settings chosen during a session: the initial ones, and each of
\* three widgets changed (the last one is not an argument of the query).
RunInputs ==
    {Defaults,
     [Defaults EXCEPT !.include_deleted = TRUE],
     [Defaults EXCEPT !.search_term = <<"4">>],
     [Defaults EXCEPT !.distinct_by = "id"]}

\* Mutant: include_deleted left out of the key.
CacheKey_NoDeleted(a) == [a EXCEPT !.include_deleted = FALSE]

\* The cache key: the hash of all six arguments of the call.
CacheKey(a) == a

\* An entry is served until ttl seconds have passed since it was stored.
Fresh(e, t) == t - e.stored_at < TTL

CacheEntry(a, t) == {e \in cache : e.key = CacheKey(a) /\ Fresh(e, t)}

\* Mutant: the connection is closed only when the block ends normally.
Release_LeakOnError(n, raised) == IF raised THEN n ELSE n - 1

\* Leaving a "with engine.connect() as conn" block closes the connection,
\* whether the block ended normally or raised.
Release(n, raised) == n - 1

\* except Exception: st.error("Database connection failed"); st.stop()
AfterConnectError == "stopped"

\* Mutant: st.stop() left out, the script goes on to the distinct count.
AfterQueryError_Continue == "count"

\* except Exception: st.error("Error querying database"); st.stop()
AfterQueryError == "stopped"

Init ==
    /\ table = RunTable
    /\ inputs = Defaults
    /\ args = CallArgs(Defaults)
    /\ df = <<>>
    /\ pc = "connect"
    /\ distinct_count = 0
    /\ rendered = {}
    /\ error = "none"
    /\ held = 0
    /\ cache = {}
    /\ now = 0
    /\ lookup = NoLookup
    /\ history = {}
    /\ stats = NoStats
    /\ runs = 1

\* A widget changes (or the page reloads) after a run has ended: the script
\* runs again from the top.
Rerun(inp) ==
    /\ pc \in {"done", "stopped"}
    /\ runs < MaxRuns
    /\ inputs' = inp
    /\ args' = CallArgs(inp)
    /\ df' = <<>>
    /\ pc' = "connect"
    /\ distinct_count' = 0
    /\ rendered' = {}
    /\ error' = "none"
    /\ lookup' = NoLookup
    /\ stats' = NoStats
    /\ runs' = runs + 1
    /\ UNCHANGED <<table, held, cache, now, history>>

\* engine = get_engine(); with engine.connect() as conn: -- a connection is
\* checked out.
ConnectAcquire ==
    /\ pc = "connect"
    /\ held' = held + 1
    /\ stats' = [stats EXCEPT !.connects = @ + 1]
    /\ pc' = "ping"
    /\ UNCHANGED <<table, inputs, args, df, distinct_count, rendered, error,
                   cache, now, lookup, history, runs>>

\* get_engine() or engine.connect() raises: nothing was checked out.
ConnectFail ==
    /\ pc = "connect"
    /\ stats' = [stats EXCEPT !.connects = @ + 1]
    /\ error' = "connect"
    /\ pc' = AfterConnectError
    /\ UNCHANGED <<table, inputs, args, df, distinct_count, rendered, held,
                   cache, now, lookup, history, runs>>

\* conn.execute(text("SELECT 1")) succeeds; st.success(...)
PingOk ==
    /\ pc = "ping"
    /\ held' = Release(held, FALSE)
    /\ rendered' = rendered \cup {"success"}
    /\ pc' = "fetch"
    /\ UNCHANGED <<table, inputs, args, df, distinct_count, error, cache, now,
                   lookup, history, stats, runs>>

\* conn.execute(text("SELECT 1")) raises.
PingFail ==
    /\ pc = "ping"
    /\ held' = Release(held, TRUE)
    /\ error' = "connect"
    /\ pc' = AfterConnectError
    /\ UNCHANGED <<table, inputs, args, df, distinct_count, rendered, cache,
                   now, lookup, history, stats, runs>>

\* fetch_waitlist_rows(...) is called and the cache holds a fresh entry for
\* the arguments: its value is returned, the function body does not run.
CacheHit ==
    /\ pc = "fetch"
    /\ \E e \in CacheEntry(args, now) :
          /\ df' = e.value
          /\ lookup' = [kind |-> "hit", at |-> now]
    /\ pc' = "count"
    /\ UNCHANGED <<table, inputs, args, distinct_count, rendered, error, held,
                   cache, now, history, stats, runs>>

\* No fresh entry: the function body runs.
CacheMiss ==
    /\ pc = "fetch"
    /\ CacheEntry(args, now) = {}
    /\ lookup' = [kind |-> "miss", at |-> now]
    /\ pc' = "acquire"
    /\ UNCHANGED <<table, inputs, args, df, distinct_count, rendered, error,
                   held, cache, now, history, stats, runs>>

\* with db_connection() as conn: -- a connection is checked out.
FetchAcquire ==
    /\ pc = "acquire"
    /\ held' = held + 1
    /\ pc' = "query"
    /\ UNCHANGED <<table, inputs, args, df, distinct_count, rendered, error,
                   cache, now, lookup, history, stats, runs>>

\* engine.connect() raises inside db_connection: nothing was checked out.
FetchAcquireFail ==
    /\ pc = "acquire"
    /\ stats' = [stats EXCEPT !.queries = @ + 1]
    /\ error' = "query"
    /\ pc' = AfterQueryError
    /\ UNCHANGED <<table, inputs, args, df, distinct_count, rendered, held,
                   cache, now, lookup, history, runs>>

\* pd.read_sql(...) returns: the connection is released, the dataframe is
\* returned and st.cache_data stores it under the call's key.
QueryOk ==
    /\ pc = "query"
    /\ \E frame \in fetch_waitlist_rows(table, args) :
          /\ df' = frame
          /\ cache' = {e \in cache : e.key # CacheKey(args)}
                        \cup {[key |-> CacheKey(args), value |-> frame,
                               stored_at |-> now]}
          /\ history' = history \cup {[args |-> args, at |-> now, value |-> frame]}
    /\ held' = Release(held, FALSE)
    /\ stats' = [stats EXCEPT !.queries = @ + 1]
    /\ pc' = "count"
    /\ UNCHANGED <<table, inputs, args, distinct_count, rendered, error, now,
                   lookup, runs>>

\* pd.read_sql(...) raises: the connection is released, nothing is cached,
\* and the call site shows the error and stops.
QueryFail ==
    /\ pc = "query"
    /\ held' = Release(held, TRUE)
    /\ stats' = [stats EXCEPT !.queries = @ + 1]
    /\ error' = "query"
    /\ pc' = AfterQueryError
    /\ UNCHANGED <<table, inputs, args, df, distinct_count, rendered, cache,
                   now, lookup, history, runs>>

\* distinct_count = ...; st.metric(...)
Count ==
    /\ pc = "count"
    /\ distinct_count' = DistinctCount(df, inputs.distinct_by)
    /\ rendered' = rendered \cup {"metric"}
    /\ pc' = "show"
    /\ UNCHANGED <<table, inputs, args, df, error, held, cache, now, lookup,
                   history, stats, runs>>

\* st.dataframe(df); st.download_button(..., data=df.to_csv(index=False))
\* (both checkboxes are ticked unless the operator clears them)
Show ==
    /\ pc = "show"
    /\ rendered' = rendered \cup {"table", "csv"}
    /\ pc' = "done"
    /\ UNCHANGED <<table, inputs, args, df, distinct_count, error, held, cache,
                   now, lookup, history, stats, runs>>

\* Time passes, while the query is running or between two runs.
Tick ==
    /\ pc \in {"query", "done", "stopped"}
    /\ \E d \in Delays :
          /\ now + d <= MaxWindows * TTL
          /\ now' = now + d
    /\ UNCHANGED <<table, inputs, args, df, pc, distinct_count, rendered, error,
                   held, cache, lookup, history, stats, runs>>

\* The external system soft-deletes a signup between two runs.
SoftDelete ==
    /\ pc \in {"done", "stopped"}
    /\ \E i \in 1..Len(table) :
          /\ table[i].deleted_at = NULL
          /\ table' = [table EXCEPT ![i].deleted_at = <<<<2024, 2, 1>>, 0>>]
    /\ UNCHANGED <<inputs, args, df, pc, distinct_count, rendered, error, held,
                   cache, now, lookup, history, stats, runs>>

Next ==
    \/ \E inp \in RunInputs : Rerun(inp)
    \/ ConnectAcquire
    \/ ConnectFail
    \/ PingOk
    \/ PingFail
    \/ CacheHit
    \/ CacheMiss
    \/ FetchAcquire
    \/ FetchAcquireFail
    \/ QueryOk
    \/ QueryFail
    \/ Count
    \/ Show
    \/ Tick
    \/ SoftDelete

Spec == Init /\ [][Next]_vars

---------------------------------------------------------------------------
\* The distinct count on its own, over dataframes with repeated and missing
\* values

\* Rows of a dataframe whose distinct values are counted.
MaxRows == 3

CountEmails == {NULL, <<"a">>, <<"b">>}

\* The k-th row of a frame: ids are unique, emails may repeat or be missing.
CountRow(k, e) ==
    [id |-> 40 + k, email |-> e, name |-> NULL,
     created_at |-> <<<<2024, 1, 1>>, 0>>, updated_at |-> <<<<2024, 1, 1>>, 0>>,
     phone |-> NULL, deleted_at |-> NULL]

CountFrames ==
    UNION {{[i \in 1..k |-> CountRow(i, f[i])] : f \in [1..k -> CountEmails]} :
              k \in 0..MaxRows}

InitCount ==
    /\ table = <<>>
    /\ inputs \in {[Defaults EXCEPT !.distinct_by = c] : c \in DistinctBys}
    /\ args = CallArgs(Defaults)
    /\ df \in CountFrames
    /\ pc = "count"
    /\ RunIdle

NextCount == Count \/ Show

SpecCount == InitCount /\ [][NextCount]_vars

---------------------------------------------------------------------------
\* Claims about the query (checked under SpecFetch)

Returned(r) == \E i \in 1..Len(df) : df[i] = r

TableRows == {table[i] : i \in 1..Len(table)}

\* t occurs in s as a case-insensitive substring.
Contains(s, t) ==
    \E k \in 0..(Len(s) - Len(t)) :
        \A j \in 1..Len(t) : Lower(s[k + j]) = Lower(t[j])

ContainsText(col, t) == col # NULL /\ Contains(col, t)

\* The row matches exclude term x: its id as text equals x, or x is a
\* case-insensitive substring of its email, name or phone.
MatchesExclude(r, x) ==
    \/ CastText(r.id) = x
    \/ ContainsText(r.email, x)
    \/ ContainsText(r.name, x)
    \/ ContainsText(r.phone, x)

PassesDeleted(r) == DeletedClause(r, args) = SqlTrue
PassesDates(r)   == StartClause(r, args) = SqlTrue /\ EndClause(r, args) = SqlTrue
PassesSearch(r)  == SearchClause(r, args) = SqlTrue
PassesExclude(r) == ExcludeClause(r, args) = SqlTrue

\* C1: with include_deleted = false no returned row has a deleted_at; with
\* include_deleted = true a row is returned or not whatever its deleted_at
\* (the same row with any other deleted_at would be selected just the same).
C1_DeletedFilter ==
    pc = "returned" =>
        /\ ~args.include_deleted =>
              \A i \in 1..Len(df) : df[i].deleted_at = NULL
        /\ args.include_deleted =>
              \A r \in TableRows : \A d \in DeletedAts :
                 Returned(r) <=> Where([r EXCEPT !.deleted_at = d], args) = SqlTrue

\* A deleted row that every other filter lets through is left out.
C1_Witness ==
    /\ pc = "returned"
    /\ ~args.include_deleted
    /\ args.search_term # <<>>
    /\ args.exclude_terms # <<>>
    /\ \E r \in TableRows :
          /\ r.deleted_at # NULL
          /\ PassesDates(r) /\ PassesSearch(r) /\ PassesExclude(r)
          /\ ~Returned(r)

\* C2: with start date S and end date E selected, a row that passes the
\* other filters is returned iff the date of its created_at lies in [S, E].
C2_WholeEndDay ==
    (pc = "returned" /\ inputs.start_date # None /\ inputs.end_date # None) =>
        \A r \in TableRows :
            (PassesDeleted(r) /\ PassesSearch(r) /\ PassesExclude(r)) =>
                (Returned(r) <=>
                    /\ DateLe(inputs.start_date, DateOf(r.created_at))
                    /\ DateLe(DateOf(r.created_at), inputs.end_date))

\* C3: searching column id with a non-empty term returns only rows whose id
\* as text equals the term, and returns such a row whenever it passes the
\* other filters.
C3_IdExact ==
    (pc = "returned" /\ args.search_col = "id" /\ args.search_term # <<>>) =>
        /\ \A i \in 1..Len(df) : CastText(df[i].id) = args.search_term
        /\ \A r \in TableRows :
              (/\ CastText(r.id) = args.search_term
               /\ PassesDeleted(r) /\ PassesDates(r) /\ PassesExclude(r))
                  => Returned(r)

\* Term "4" over ids 4 and 42: id 4 is returned, id 42 is not.
C3_Witness ==
    /\ pc = "returned"
    /\ args.search_col = "id"
    /\ args.search_term = <<"4">>
    /\ Len(table) = 2
    /\ Len(df) = 1
    /\ df[1].id = 4
    /\ \E r \in TableRows :
          /\ r.id = 42
          /\ PassesDeleted(r) /\ PassesDates(r) /\ PassesExclude(r)

\* C4: searching column any with a non-empty term t returns a row that
\* passes the other filters iff t is a case-insensitive substring of its id
\* as text, email, name or phone.
C4_AnySubstring ==
    (pc = "returned" /\ args.search_col = "any" /\ args.search_term # <<>>) =>
        \A r \in TableRows :
            (PassesDeleted(r) /\ PassesDates(r) /\ PassesExclude(r)) =>
                (Returned(r) <=>
                    \/ Contains(CastText(r.id), args.search_term)
                    \/ ContainsText(r.email, args.search_term)
                    \/ ContainsText(r.name, args.search_term)
                    \/ ContainsText(r.phone, args.search_term))

\* C5: no returned row matches any exclude term.
C5_NoExcludedRow ==
    pc = "returned" =>
        \A i \in 1..Len(df) : \A k \in 1..Len(args.exclude_terms) :
            ~MatchesExclude(df[i], args.exclude_terms[k])

\* C10: with exclude terms given, a row that passes the deleted, date and
\* search filters and matches none of the terms is returned.
C10_OnlyMatchingRemoved ==
    (pc = "returned" /\ args.exclude_terms # <<>>) =>
        \A r \in TableRows :
            (/\ PassesDeleted(r) /\ PassesDates(r) /\ PassesSearch(r)
             /\ \A k \in 1..Len(args.exclude_terms) :
                   ~MatchesExclude(r, args.exclude_terms[k]))
                => Returned(r)

---------------------------------------------------------------------------
\* Claim about the distinct count (checked under SpecCount)

Counted == pc \in {"show", "done"}

\* The values of column col that are present in the frame.
PresentValues(frame, col) ==
    {frame[i][col] : i \in {j \in 1..Len(frame) : ~IsMissing(frame[j], col)}}

\* C6: the distinct count is the number of distinct values of the chosen
\* column in the result set (missing values are not values), it is the same
\* with or without de-duplicating the rows first, and it never exceeds the
\* number of rows.
C6_DistinctCount ==
    Counted =>
        /\ distinct_count = Cardinality(PresentValues(df, inputs.distinct_by))
        /\ distinct_count =
              Cardinality(PresentValues(drop_duplicates(df, inputs.distinct_by),
                                        inputs.distinct_by))
        /\ distinct_count <= Len(df)

\* Emails [a, a, b] give 2.
C6_Witness ==
    /\ Counted
    /\ inputs.distinct_by = "email"
    /\ Len(df) = 3
    /\ df[1].email = <<"a">> /\ df[2].email = <<"a">> /\ df[3].email = <<"b">>
    /\ distinct_count = 2

---------------------------------------------------------------------------
\* Claims about a session (checked under Spec)

\* C7: a run makes at most one connectivity check and at most one query; once
\* the connectivity check has failed the run is stopped with nothing else on
\* the page and no cache lookup or query made; once the query has failed the
\* run is stopped without the distinct count, the table or the CSV export.
C7_FailFast ==
    /\ stats.connects <= 1
    /\ stats.queries <= 1
    /\ error = "connect" =>
          /\ pc = "stopped"
          /\ stats.queries = 0
          /\ lookup.kind = "none"
          /\ rendered = {}
    /\ error = "query" =>
          /\ pc = "stopped"
          /\ rendered \cap {"metric", "table", "csv"} = {}
          /\ distinct_count = 0

\* A run whose query failed after an earlier run had succeeded.
C7_Witness ==
    /\ error = "query"
    /\ pc = "stopped"
    /\ stats.queries = 1
    /\ rendered = {"success"}
    /\ runs > 1

\* C8: at most one connection is held at any moment, and only inside the
\* connectivity check or the query; whenever a fetch has finished, with rows
\* or with an error, none is held.
C8_ConnectionsReleased ==
    /\ held \in {0, 1}
    /\ held = 1 => pc \in {"ping", "query"}
    /\ pc \notin {"ping", "query"} => held = 0

\* A failed query after a successful one, with nothing held.
C8_Witness ==
    /\ pc = "stopped"
    /\ error = "query"
    /\ lookup.kind = "miss"
    /\ history # {}
    /\ held = 0

\* The successful queries made with the run's arguments.
SameArgs == {h \in history : h.args = args}

\* C9: the cache is keyed by the six arguments and serves an entry for 300
\* seconds.  A call is served from the cache, with no query in the run, only
\* when a query with the same arguments succeeded less than 300 seconds
\* before, and it returns the result of the latest such query; a call for
\* which no such query exists runs the query; every cache entry comes from a
\* successful query with exactly its key as arguments.
C9_Cache ==
    /\ lookup.kind = "hit" =>
          /\ stats.queries = 0
          /\ \E h \in SameArgs :
                /\ lookup.at - h.at < TTL
                /\ \A g \in SameArgs : g.at <= h.at
                /\ df = h.value
    /\ (lookup.kind = "miss" /\ pc \in {"acquire", "query"}) =>
          \A h \in SameArgs : lookup.at - h.at >= TTL
    /\ (lookup.kind = "miss" /\ pc \in {"count", "show", "done"}) =>
          stats.queries = 1
    /\ lookup.kind = "none" => pc \in {"connect", "ping", "fetch", "stopped"}
    /\ \A e \in cache :
          \E h \in history :
              h.args = e.key /\ h.at = e.stored_at /\ h.value = e.value

\* A hit that returns what an earlier query found although the table has
\* changed since.
C9_Witness ==
    /\ lookup.kind = "hit"
    /\ lookup.at > 0
    /\ df \notin fetch_waitlist_rows(table, args)

====
